---- MODULE Spec2Model ----
(***************************************************************************)
(* RFI_PROJ: the JSON-file-backed assessments service (the full server     *)
(* variant of src/requirements/ui-my-assessments.md, lines 213-340).       *)
(*                                                                         *)
(* Every request handler is an async function: the code between two        *)
(* awaits runs atomically on the Node event loop, so a handler is modelled *)
(* as one action per await-delimited segment:                              *)
(*   Start  : validation, up to the call of readJsonFile                   *)
(*   Read   : readJsonFile resolves; the handler computes its change and   *)
(*            calls writeJsonFile (or answers)                             *)
(*   Write  : writeJsonFile resolves; the handler answers                  *)
(* A JS object is a function from field names to strings; the file holds   *)
(* the JSON text, modelled as a sequence of <<key, value>> entry lists.    *)
(* fs.readFile and fs.writeFile each take effect at one instant; the three *)
(* clock reads of one POST segment return one value; a handler reads the   *)
(* clock only in its Read segment, so the clock is advanced there.         *)
(***************************************************************************)
EXTENDS Integers, Sequences, FiniteSets, TLC

\* ---- bounds of the model ------------------------------------------------
NumProcs == 2          \* handlers that can be in flight together
MaxRequests == 2       \* requests started in one behaviour
MaxClock == 1          \* last value of the millisecond clock
DayLen == 1            \* clock values per calendar day
MaxEvents == 2         \* user events on the page in one behaviour
MaxRuns == 2           \* runs of the download script in one behaviour

Procs == 1..NumProcs

\* ---- request inputs -----------------------------------------------------
\* Request bodies: valid ones (with and without server-assigned fields and
\* an extra field) and ones failing the required-field check.
Bodies ==
  { [processName |-> "A", status |-> "Draft"],
    [processName |-> "B", status |-> "Approved", content |-> "x",
     id |-> "77", createdDate |-> "1999", lastModified |-> "1999"],
    [processName |-> "", status |-> "Draft", content |-> "y"],
    [processName |-> "A"] }

\* Variant of IdOf that yields the empty text: C23 depends on the id being the
\* text of a number.
IdOfEmpty(t) == ""

\* Date.now().toString(): the decimal text of the clock value.
IdOf(t) == ToString(t)

\* new Date().toISOString().split('T')[0]: the calendar day of the clock.
DateOf(t) == "day" \o ToString(t \div DayLen)

\* Path parameters of PUT: two ids the server can assign, and one it cannot.
PathIds == { "0", "1", "77" }

\* ---- JS objects and JSON text ---------------------------------------------
\* The order in which JSON.stringify is taken to emit the keys.
FieldOrder ==
  << "processName", "content", "status", "id", "createdDate", "lastModified" >>

RECURSIVE EntriesFrom(_, _)
EntriesFrom(obj, i) ==
  IF i > Len(FieldOrder) THEN << >>
  ELSE IF FieldOrder[i] \in DOMAIN obj
       THEN << << FieldOrder[i], obj[FieldOrder[i]] >> >> \o EntriesFrom(obj, i + 1)
       ELSE EntriesFrom(obj, i + 1)

\* JSON.stringify of one object: its key/value entries.
StringifyObj(obj) == EntriesFrom(obj, 1)

\* JSON.stringify(data, null, 2) of an array of objects.
Stringify(arr) == [ i \in 1..Len(arr) |-> StringifyObj(arr[i]) ]

\* JSON.parse of one object text.
ParseObj(txt) ==
  [ k \in { txt[i][1] : i \in 1..Len(txt) } |->
      txt[CHOOSE i \in 1..Len(txt) : txt[i][1] = k][2] ]

\* JSON.parse of the file text: an array of objects.
Parse(text) == [ i \in 1..Len(text) |-> ParseObj(text[i]) ]

\* An object with no field, and the value of a variable that holds nothing.
EmptyObj == [ k \in {} |-> "" ]

\* The ids of the records of an array.
IdsOf(arr) == { arr[i]["id"] : i \in 1..Len(arr) }

\* ---- the handlers' computations ------------------------------------------
\* Variant of Valid that forgets the status: C4 depends on both checks.
ValidNameOnly(b) == "processName" \in DOMAIN b /\ b["processName"] # ""

\* !x.processName || !x.status : absent and empty both fail the check.
Valid(b) ==
  /\ "processName" \in DOMAIN b /\ b["processName"] # ""
  /\ "status" \in DOMAIN b /\ b["status"] # ""

\* Variant of NewAssessment that builds the record from the known fields only
\* and drops any other field of the body: C9 depends on the body being kept.
NewAssessmentKnownFields(b, t) ==
  [ k \in { "processName", "status", "id", "createdDate", "lastModified" } |->
      IF k = "id" THEN ToString(t)
      ELSE IF k \in { "createdDate", "lastModified" } THEN "day" \o ToString(t \div DayLen)
      ELSE b[k] ]

\* The three assignments to newAssessment (= req.body) at clock value t.
NewAssessment(b, t) ==
  [ k \in DOMAIN b \cup { "id", "createdDate", "lastModified" } |->
      IF k = "id" THEN IdOf(t)
      ELSE IF k \in { "createdDate", "lastModified" } THEN DateOf(t)
      ELSE b[k] ]

\* Variant of PostChange that puts the new record first (unshift for push): C2
\* depends on the records read keeping their places.
PostChangeFront(arr, b, t) == << NewAssessment(b, t) >> \o arr

\* Variant of PostChange that checks for a collision and leaves the array as
\* it is when the id is taken: C10 depends on there being no such check.
PostChangeUnique(arr, b, t) ==
  IF NewAssessment(b, t)["id"] \in IdsOf(arr) THEN arr
  ELSE Append(arr, NewAssessment(b, t))

\* Variant of PostChange that starts a new array with the new record: C24
\* depends on the records read being kept.
PostChangeOnly(arr, b, t) == << NewAssessment(b, t) >>

\* assessments.push(newAssessment)
PostChange(arr, b, t) == Append(arr, NewAssessment(b, t))

\* Variant of FindIndex that falls back on the last element when no id
\* matches: C5 depends on the miss being reported.
FindIndexOrLast(arr, id) ==
  IF \E i \in 1..Len(arr) : arr[i]["id"] = id
  THEN CHOOSE i \in 1..Len(arr) :
         arr[i]["id"] = id /\ \A j \in 1..(i - 1) : arr[j]["id"] # id
  ELSE Len(arr)

\* Variant of FindIndex that yields the last record with the id
\* (findLastIndex): C25 depends on the first one being taken.
FindLastIndex(arr, id) ==
  IF \E i \in 1..Len(arr) : "id" \in DOMAIN arr[i] /\ arr[i]["id"] = id
  THEN CHOOSE i \in 1..Len(arr) :
         /\ "id" \in DOMAIN arr[i] /\ arr[i]["id"] = id
         /\ \A j \in (i + 1)..Len(arr) : ~("id" \in DOMAIN arr[j] /\ arr[j]["id"] = id)
  ELSE 0

\* assessments.findIndex(a => a.id === assessmentId); 0 stands for -1.
FindIndex(arr, id) ==
  IF \E i \in 1..Len(arr) : "id" \in DOMAIN arr[i] /\ arr[i]["id"] = id
  THEN CHOOSE i \in 1..Len(arr) :
         /\ "id" \in DOMAIN arr[i] /\ arr[i]["id"] = id
         /\ \A j \in 1..(i - 1) : ~("id" \in DOMAIN arr[j] /\ arr[j]["id"] = id)
  ELSE 0

\* Variant of MergeRecord with the two spreads swapped, so that stored fields
\* win: C7 depends on the order of the spreads.
MergeRecordStoredWins(old, b, id, t) ==
  [ k \in DOMAIN old \cup DOMAIN b \cup { "id", "lastModified" } |->
      IF k = "id" THEN id
      ELSE IF k = "lastModified" THEN "day" \o ToString(t \div DayLen)
      ELSE IF k \in DOMAIN old THEN old[k]
      ELSE b[k] ]

\* { ...assessments[index], ...updatedAssessmentData, id, lastModified }
MergeRecord(old, b, id, t) ==
  [ k \in DOMAIN old \cup DOMAIN b \cup { "id", "lastModified" } |->
      IF k = "id" THEN id
      ELSE IF k = "lastModified" THEN DateOf(t)
      ELSE IF k \in DOMAIN b THEN b[k]
      ELSE old[k] ]

\* Variant of PutChange that pushes the merged record instead of assigning it
\* to its index: C8 depends on the record being replaced in place.
PutChangePush(arr, i, b, id, t) == Append(arr, MergeRecord(arr[i], b, id, t))

\* Variant of PutChange that keeps the merged record alone: C21 depends on
\* the records the PUT does not address being written back.
PutChangeOnly(arr, i, b, id, t) == << MergeRecord(arr[i], b, id, t) >>

\* assessments[index] = { ... } on the array the handler read.
PutChange(arr, i, b, id, t) ==
  [ arr EXCEPT ![i] = MergeRecord(arr[i], b, id, t) ]

\* Variant of PathOf in which the POST handler was copied from the RFI one
\* with its file name: C14 depends on no handler writing rfis.json.
PathOfPostOnRfis(k) == IF k \in { "RFIS", "POST" } THEN "rfis" ELSE "assessments"

\* The file a handler of kind k names: path.join(__dirname, 'public', 'data', ...).
PathOf(k) == IF k = "RFIS" THEN "rfis" ELSE "assessments"

\* Variant of ReadFails that rethrows every error, ENOENT included: C12
\* depends on the absent file being read as the empty array.
ReadFailsIfMissing(f) == f.state \in { "bad", "missing" }

\* Variant of ReadFails that swallows every error and reads the file as the
\* empty array: C13 depends on the error being rethrown.
ReadFailsNever(f) == FALSE

\* readJsonFile throws: the read or the parse failed with an error other
\* than ENOENT.
ReadFails(f) == f.state = "bad"

\* readJsonFile: the parsed array, [] when the file is absent.
ReadJsonFile(f) == IF f.state = "missing" THEN << >> ELSE Parse(f.text)

\* writeJsonFile: the whole file is replaced by the text of the array.
WriteJsonFile(arr) == [ state |-> "ok", text |-> Stringify(arr) ]

\* ---- the server variant that checks existsSync ------------------------------
\* fs.existsSync(filePath).
ExistsSync(f) == f.state # "missing"

\* The collection a client parses from a body that is Stringify's text.
SendJson(arr) == Parse(Stringify(arr))

SendFileEmpty(f) == << >>

\* res.sendFile(filePath): the body is the file's bytes as they are; the
\* collection a client parses from them.
SendFile(f) == Parse(f.text)

\* The statuses sendFile can answer: 200 with the bytes of a file it can read
\* (well-formed or not), 500 from the default error handler when it cannot.
SendFileStatuses(f) == IF f.state = "bad" THEN { 200, 500 } ELSE { 200 }

\* ---- the client: public/assets/js/app.js -------------------------------------
\* Text the client handles is a sequence of characters, each a one-letter string.
Upper == << "A", "B", "C", "D", "R" >>
Lower == << "a", "b", "c", "d", "r" >>

\* String.prototype.toLowerCase, a character at a time.
ToLowerChar(c) ==
  IF \E i \in DOMAIN Upper : Upper[i] = c
  THEN Lower[CHOOSE i \in DOMAIN Upper : Upper[i] = c]
  ELSE c

ToLowerCase(s) == [ i \in 1..Len(s) |-> ToLowerChar(s[i]) ]

\* String.prototype.trim: white space is dropped at both ends, kept inside.
RECURSIVE TrimStart(_)
TrimStart(s) ==
  IF s # << >> /\ Head(s) = " " THEN TrimStart(Tail(s)) ELSE s

RECURSIVE TrimEnd(_)
TrimEnd(s) ==
  IF s # << >> /\ s[Len(s)] = " " THEN TrimEnd(SubSeq(s, 1, Len(s) - 1)) ELSE s

Trim(s) == TrimEnd(TrimStart(s))

\* String.prototype.includes: k occurs in h as a run of consecutive characters.
Includes(h, k) ==
  \E i \in 1..(Len(h) - Len(k) + 1) : SubSeq(h, i, i + Len(k) - 1) = k

\* a.<field> ?? "": a field the record lacks reads as the empty text.
Field(a, f) == IF f \in DOMAIN a THEN a[f] ELSE << >>

\* a.status, "undefined" for a record without one.
StatusOf(a) == IF "status" \in DOMAIN a THEN a["status"] ELSE "undefined"

\* normalize(s).
Normalize(s) == Trim(ToLowerCase(s))

\* [ ... ].join(" | ").
Separator == << " ", "|", " " >>
Haystack(a) ==
  Normalize(Field(a, "processName")) \o Separator
    \o Normalize(Field(a, "content")) \o Separator
    \o Normalize(Field(a, "location"))

\* matchesKeyword(a, keyword).
MatchesKeyword(a, keyword) ==
  LET k == Normalize(keyword)
  IN IF k = << >> THEN TRUE ELSE Includes(Haystack(a), k)

\* allRows.filter(a => matchesKeyword(a, kw)).
Filter(rows, kw) == SelectSeq(rows, LAMBDA a : MatchesKeyword(a, kw))

RefilterView(all, view, kw) == Filter(view, kw)

\* The view the search input listener computes from the baseline, the view on
\* screen and the text of the search box.
Refilter(all, view, kw) == Filter(all, kw)

\* The three buttons of a row: TRUE for a button that is not disabled.
ViewEnabled(a) == TRUE

EditEnabled(a) == StatusOf(a) # "Approved"

SubmitEnabledUnlessApproved(a) == StatusOf(a) # "Approved"

SubmitEnabled(a) == StatusOf(a) = "Draft"

\* (a.content ?? "").slice(0, 40), and whether the ellipsis follows it.
ContentCellLen == 40
ContentCell(a) ==
  LET c == Field(a, "content")
  IN [ text |-> SubSeq(c, 1, IF Len(c) > ContentCellLen THEN ContentCellLen ELSE Len(c)),
       more |-> Len(c) > ContentCellLen ]

\* One <tr> of renderTable: the cells and buttons that depend on the filter or
\* the status (the eight remaining cells copy a field each).
RenderRow(a) ==
  [ id |-> a["id"],
    processName |-> Field(a, "processName"),
    content |-> ContentCell(a),
    location |-> Field(a, "location"),
    status |-> IF "status" \in DOMAIN a THEN a["status"] ELSE "",
    view |-> ViewEnabled(a),
    edit |-> EditEnabled(a),
    submit |-> SubmitEnabled(a) ]

\* renderTable(rows): the rows of #assessmentsBody; the single "No results."
\* row stands for an empty list.
RenderTable(rows) == [ i \in 1..Len(rows) |-> RenderRow(rows[i]) ]

\* The collections GET /api/assessments can hand the page.
Row1 == [ id |-> "1", status |-> "Draft",
          processName |-> << "A", "l", "p", "h", "a" >>,
          content |-> << "x" >>,
          location |-> << "C", "a", "l", "g", "a", "r", "y" >> ]
Row2 == [ id |-> "2", status |-> "Approved",
          processName |-> << "B", "e", "t", "a" >>,
          content |-> << "y" >>,
          location |-> << "R", "e", "d", " ", "D", "e", "e", "r" >> ]
Row3 == [ id |-> "3", status |-> "In Review", processName |-> << "B" >> ]
Row4 == [ id |-> "4", processName |-> << " ", "b", "e" >>, content |-> << "C", "a", "l" >> ]

\* What the fetch of the page is answered: a status and the parsed body.
Responses ==
  { [ status |-> 200, rows |-> r ] :
      r \in { << >>, << Row1, Row2 >>, << Row2, Row3, Row4 >> } }
    \cup { [ status |-> st, rows |-> << >> ] : st \in { 404, 500 } }

\* What the user can type into #searchBox.
Queries ==
  { << >>, << " " >>, << "c", "a", "l", "g", "a", "r", "y" >>,
    << " ", "B", "E", " " >>, << "|" >>, << "y", " ", "|", " ", "r" >>,
    << "d", " ", "d" >> }

\* ---- the download script: skills/SKILL1-MIGRATE.md --------------------------
API_LIMIT == 10000
MAX_RETRIES == 5

\* The sizes the resource can have, and the offsets of its batches.
Totals == { 0, 5000, 20000, 25000 }
Offsets == { 0, API_LIMIT, 2 * API_LIMIT }

\* result.records.length of datastore_search at an offset of a resource of
\* total records.
RecordsAt(total, off) ==
  IF off >= total THEN 0
  ELSE IF total - off > API_LIMIT THEN API_LIMIT ELSE total - off

IsLastRetryAfter(n) == n > MAX_RETRIES

\* const isLastRetry = retryCount >= MAX_RETRIES
IsLastRetry(n) == n >= MAX_RETRIES

\* { completedBatches: [], totalRecords: null }
FreshProgress == [ totalRecords |-> 0, completedBatches |-> {} ]

\* loadProgress(resourceId): the parsed file, or a fresh object when there is
\* no file or it cannot be parsed.
LoadProgress(f) ==
  IF f.state = "ok"
  THEN [ totalRecords |-> f.totalRecords, completedBatches |-> f.completedBatches ]
  ELSE FreshProgress

\* The file saveProgress(resourceId, progress) leaves.
SavedProgress(pr) ==
  [ state |-> "ok", totalRecords |-> pr.totalRecords,
    completedBatches |-> pr.completedBatches ]

\* A file that a write left unfinished.
TornProgress == [ state |-> "torn", totalRecords |-> 0, completedBatches |-> {} ]

NextAfterFetchUnsaved(n) == IF n = 0 THEN "finish" ELSE "progress"

\* Where fetchAllRecords goes with a batch of n records: out of the loop when
\* it is empty, else on to saveBatch.
NextAfterFetch(n) == IF n = 0 THEN "finish" ELSE "save"

IsLastPageOrFull(n) == n <= API_LIMIT

\* records.length < API_LIMIT
IsLastPage(n) == n < API_LIMIT

\* ---- state -----------------------------------------------------------------
VARIABLES
  file,        \* assessments.json: [state, text]; state is missing, ok or bad
  rfis,        \* rfis.json: [state, text]
  now,         \* the millisecond clock, as last read by a handler
  pc,          \* per handler: idle, read (awaiting readFile), write, done
  kind,        \* per handler: none, GET, POST, PUT
  pathId,      \* per handler: req.params.id
  body,        \* per handler: req.body (POST assigns three fields to it)
  local,       \* per handler: its assessments array
  index,       \* per handler: the index findIndex returned (0 for -1)
  resStatus,   \* per handler: the HTTP status answered (0: none yet)
  resRec,      \* per handler: the JSON object answered
  resList,     \* per handler: the JSON array answered
  started,     \* number of requests started
  sent,        \* history, per handler: the body as the client sent it
  snap,        \* history, per handler: the array readJsonFile returned
  stamp,       \* history, per handler: the clock value the handler read
  readAt,      \* history, per handler: nWrites when its readFile resolved
  wroteAt,     \* history, per handler: the number of its write (0: no write)
  acked,       \* history: ids answered by a 201
  mustSee,     \* history, per handler: acked when the request was issued
  nWrites,     \* history: number of writes of the file so far
  prevPut,     \* history: the latest write when it was a PUT's
  seenPut,     \* history, per handler: prevPut when the request was issued
  expect,      \* history: the answered writes applied one after the other
  clean        \* history: every write so far followed its read with no write between

\* The page in the browser.
VARIABLES
  page,        \* closed, other (not My Assessments), loading, ready, error
  response,    \* what the server answers the page's fetch
  fetches,     \* number of requests the page has issued
  allRows,     \* the baseline initMyAssessments keeps
  current,     \* the view: the rows last handed to renderTable
  tbody,       \* the rows of #assessmentsBody
  statusText,  \* #status: [kind, n], kind is none, loading, count or error
  searchBox,   \* #searchBox.value
  alertText,   \* the latest alert: [action, name, id]
  events,      \* number of user events so far
  heard        \* history: number of input events the search listener handled

serverVars == << file, rfis, now, pc, kind, pathId, body, local, index, resStatus, resRec,
                 resList, started, sent, snap, stamp, readAt, wroteAt, acked,
                 mustSee, nWrites, prevPut, seenPut, expect, clean >>

clientVars == << page, response, fetches, allRows, current, tbody, statusText,
                 searchBox, alertText, events, heard >>

\* The download script of skills/SKILL1-MIGRATE.md, its data directory and the API.
VARIABLES
  dataset,       \* the API: number of records of the resource
  progressFile,  \* <id>_progress.json: [state, totalRecords, completedBatches]
  batchFile,     \* per offset: none, torn or whole, the state of its batch file
  metadataFile,  \* <id>_metadata.json: [state, totalRecords, totalBatches]
  dpc,           \* the script: off, discover, loop, fetch, save, progress,
                 \*   finish, returned, threw
  offset,        \* fetchAllRecords: let offset
  totalRecords,  \* fetchAllRecords: let totalRecords (0 for null)
  completedOffsets, \* fetchAllRecords: the set completedOffsets
  progress,      \* fetchAllRecords: the object loadProgress returned
  records,       \* fetchAllRecords: records.length of the batch in hand
  retryCount,    \* fetchBatchWithRetry: retryCount of the call in progress
  runs,          \* number of runs of the script started
  attempts,      \* history: requests made by the latest fetchBatchWithRetry call
  failures       \* history: the failed ones among them

downloadVars == << dataset, progressFile, batchFile, metadataFile, dpc, offset,
                   totalRecords, completedOffsets, progress, records, retryCount,
                   runs, attempts, failures >>

vars == << serverVars, clientVars, downloadVars >>

reqVars == << kind, pathId, body, sent >>
histVars == << acked, nWrites, prevPut, expect, clean >>

\* The value of prevPut when the latest write was not a PUT's.
NoPut == [ n |-> 0, id |-> "", body |-> EmptyObj, rec |-> EmptyObj,
           after |-> << >> ]

\* A record that an earlier POST stored: the body it was sent, created at clock 0.
Seed == NewAssessment([ processName |-> "S", status |-> "Draft", content |-> "z" ], 0)

\* The files the server can start on: none, an empty array, an unreadable
\* file, and the array holding one record of an earlier POST.
InitFiles ==
  { [ state |-> st, text |-> << >> ] : st \in { "missing", "ok", "bad" } }
    \cup { WriteJsonFile(<< Seed >>) }

\* An RFI list, and rfis.json holding its text.
RfiRows == << [ id |-> "R1", status |-> "Open" ], [ id |-> "R2", status |-> "Closed" ] >>
RfisFile ==
  [ state |-> "ok",
    text |-> << << << "id", "R1" >>, << "status", "Open" >> >>,
                << << "id", "R2" >>, << "status", "Closed" >> >> >> ]

\* The file at a path.
FileAt(path) == IF path = "rfis" THEN rfis ELSE file

\* The stored collection, as a GET would parse it.
Stored == ReadJsonFile(file)

\* The latest write of the file is the one of handler p's present request.
LastWriter(p) == wroteAt[p] > 0 /\ wroteAt[p] = nWrites

\* No alert yet.
NoAlert == [ action |-> "none", name |-> << >>, id |-> "" ]

\* The page before its document is loaded.
PageClosed ==
  /\ page = "closed"
  /\ fetches = 0
  /\ allRows = << >>
  /\ current = << >>
  /\ tbody = << >>
  /\ statusText = [ kind |-> "none", n |-> 0 ]
  /\ searchBox = << >>
  /\ alertText = NoAlert
  /\ events = 0
  /\ heard = 0

\* What a 200 PUT of body b to id at date d asks for, done on the collection
\* arr: the first record with that id takes the fields of b and the date, and
\* keeps its id and its place.
ApplyPut(arr, id, b, d) ==
  IF \E i \in DOMAIN arr : arr[i]["id"] = id
  THEN LET i == CHOOSE i \in DOMAIN arr :
                  arr[i]["id"] = id /\ \A j \in 1..(i - 1) : arr[j]["id"] # id
       IN [ arr EXCEPT ![i] =
              [ k \in DOMAIN arr[i] \cup DOMAIN b \cup { "lastModified" } |->
                  IF k = "id" THEN arr[i]["id"]
                  ELSE IF k = "lastModified" THEN d
                  ELSE IF k \in DOMAIN b THEN b[k]
                  ELSE arr[i][k] ] ]
  ELSE arr

\* The server as it starts.
ServerInit ==
  /\ file \in InitFiles
  /\ rfis = RfisFile
  /\ now = 0
  /\ pc = [ p \in Procs |-> "idle" ]
  /\ kind = [ p \in Procs |-> "none" ]
  /\ pathId = [ p \in Procs |-> "" ]
  /\ body = [ p \in Procs |-> EmptyObj ]
  /\ local = [ p \in Procs |-> << >> ]
  /\ index = [ p \in Procs |-> 0 ]
  /\ resStatus = [ p \in Procs |-> 0 ]
  /\ resRec = [ p \in Procs |-> EmptyObj ]
  /\ resList = [ p \in Procs |-> << >> ]
  /\ started = 0
  /\ sent = [ p \in Procs |-> EmptyObj ]
  /\ snap = [ p \in Procs |-> << >> ]
  /\ stamp = [ p \in Procs |-> 0 ]
  /\ readAt = [ p \in Procs |-> 0 ]
  /\ wroteAt = [ p \in Procs |-> 0 ]
  /\ acked = {}
  /\ mustSee = [ p \in Procs |-> {} ]
  /\ nWrites = 0
  /\ prevPut = NoPut
  /\ seenPut = [ p \in Procs |-> NoPut ]
  /\ expect = IF ReadFails(file) THEN << >> ELSE ReadJsonFile(file)
  /\ clean = TRUE

\* No file of the metadata.
NoMetadata == [ state |-> "none", totalRecords |-> 0, totalBatches |-> 0 ]

\* The variables of a script that is not running.
ScriptDead ==
  /\ offset' = 0
  /\ totalRecords' = 0
  /\ completedOffsets' = {}
  /\ progress' = FreshProgress
  /\ records' = 0
  /\ retryCount' = 0

\* The download script before its first run, on an empty data directory.
DownloadOff ==
  /\ progressFile = [ state |-> "none", totalRecords |-> 0, completedBatches |-> {} ]
  /\ batchFile = [ o \in Offsets |-> "none" ]
  /\ metadataFile = NoMetadata
  /\ dpc = "off"
  /\ offset = 0
  /\ totalRecords = 0
  /\ completedOffsets = {}
  /\ progress = FreshProgress
  /\ records = 0
  /\ retryCount = 0
  /\ runs = 0
  /\ attempts = 0
  /\ failures = 0

\* The server alone: no page is opened, no download is run.
Init ==
  /\ ServerInit
  /\ PageClosed
  /\ response = [ status |-> 404, rows |-> << >> ]
  /\ DownloadOff
  /\ dataset = 0

\* A request is taken by a free handler slot: the first idle one, or when none
\* is idle the first whose request is done (an answer stays readable in its
\* slot until the slot is taken again).
Takes(p) ==
  /\ started < MaxRequests
  /\ \/ /\ pc[p] = "idle"
        /\ \A q \in Procs : q < p => pc[q] # "idle"
     \/ /\ pc[p] = "done"
        /\ \A q \in Procs : pc[q] # "idle"
        /\ \A q \in Procs : q < p => pc[q] # "done"

\* The slot's fields at the start of a request of kind k.
Begin(p, k, id, b) ==
  /\ started' = started + 1
  /\ kind' = [ kind EXCEPT ![p] = k ]
  /\ pathId' = [ pathId EXCEPT ![p] = id ]
  /\ body' = [ body EXCEPT ![p] = b ]
  /\ sent' = [ sent EXCEPT ![p] = b ]
  /\ local' = [ local EXCEPT ![p] = << >> ]
  /\ index' = [ index EXCEPT ![p] = 0 ]
  /\ resList' = [ resList EXCEPT ![p] = << >> ]
  /\ snap' = [ snap EXCEPT ![p] = << >> ]
  /\ stamp' = [ stamp EXCEPT ![p] = 0 ]
  /\ readAt' = [ readAt EXCEPT ![p] = 0 ]
  /\ wroteAt' = [ wroteAt EXCEPT ![p] = 0 ]
  /\ mustSee' = [ mustSee EXCEPT ![p] = IF k = "GET" THEN acked ELSE {} ]
  /\ seenPut' = [ seenPut EXCEPT ![p] = IF k = "PUT" THEN prevPut ELSE NoPut ]
  /\ UNCHANGED << file, rfis, now, acked, nWrites, prevPut, expect, clean >>
  /\ UNCHANGED << clientVars, downloadVars >>

\* The handler answers: res.status(s).json(obj).
Answer(p, s, obj) ==
  /\ pc' = [ pc EXCEPT ![p] = "done" ]
  /\ resStatus' = [ resStatus EXCEPT ![p] = s ]
  /\ resRec' = [ resRec EXCEPT ![p] = obj ]

\* The handler awaits a file operation.
Await(p, at) ==
  /\ pc' = [ pc EXCEPT ![p] = at ]
  /\ resStatus' = [ resStatus EXCEPT ![p] = 0 ]
  /\ resRec' = [ resRec EXCEPT ![p] = EmptyObj ]

\* writeJsonFile(path, arr) takes effect.
WriteTo(path, arr) ==
  /\ file' = IF path = "assessments" THEN WriteJsonFile(arr) ELSE file
  /\ rfis' = IF path = "rfis" THEN WriteJsonFile(arr) ELSE rfis

\* ---- GET /api/assessments --------------------------------------------------
GetStart(p) ==
  /\ Takes(p)
  /\ Begin(p, "GET", "", EmptyObj)
  /\ Await(p, "read")

GetRead(p) ==
  /\ pc[p] = "read" /\ kind[p] = "GET"
  /\ LET f == FileAt(PathOf(kind[p]))
     IN /\ IF ReadFails(f)
           THEN /\ Answer(p, 500, [ error |-> "Failed to retrieve assessments" ])
                /\ UNCHANGED resList
           ELSE /\ pc' = [ pc EXCEPT ![p] = "done" ]
                /\ resStatus' = [ resStatus EXCEPT ![p] = 200 ]
                /\ resList' = [ resList EXCEPT ![p] = ReadJsonFile(f) ]
                /\ UNCHANGED resRec
        /\ snap' = [ snap EXCEPT ![p] = IF ReadFails(f) THEN << >> ELSE ReadJsonFile(f) ]
  /\ readAt' = [ readAt EXCEPT ![p] = nWrites ]
  /\ UNCHANGED << file, rfis, now, local, index, started, stamp, wroteAt, mustSee,
                  seenPut >>
  /\ UNCHANGED reqVars
  /\ UNCHANGED histVars
  /\ UNCHANGED << clientVars, downloadVars >>

\* ---- GET /api/rfis ----------------------------------------------------------
RfisStart(p) ==
  /\ Takes(p)
  /\ Begin(p, "RFIS", "", EmptyObj)
  /\ Await(p, "read")

RfisRead(p) ==
  /\ pc[p] = "read" /\ kind[p] = "RFIS"
  /\ LET f == FileAt(PathOf(kind[p]))
     IN /\ IF ReadFails(f)
           THEN /\ Answer(p, 500, [ error |-> "Failed to retrieve RFIs" ])
                /\ UNCHANGED resList
           ELSE /\ pc' = [ pc EXCEPT ![p] = "done" ]
                /\ resStatus' = [ resStatus EXCEPT ![p] = 200 ]
                /\ resList' = [ resList EXCEPT ![p] = ReadJsonFile(f) ]
                /\ UNCHANGED resRec
        /\ snap' = [ snap EXCEPT ![p] = IF ReadFails(f) THEN << >> ELSE ReadJsonFile(f) ]
  /\ readAt' = [ readAt EXCEPT ![p] = nWrites ]
  /\ UNCHANGED << file, rfis, now, local, index, started, stamp, wroteAt, mustSee,
                  seenPut >>
  /\ UNCHANGED reqVars
  /\ UNCHANGED histVars
  /\ UNCHANGED << clientVars, downloadVars >>

\* ---- POST /api/assessments -------------------------------------------------
PostStart(p, b) ==
  /\ Takes(p)
  /\ Begin(p, "POST", "", b)
  /\ IF ~Valid(b)
     THEN Answer(p, 400, [ error |-> "Process Name and Status are required." ])
     ELSE Await(p, "read")

PostRead(p, t) ==
  /\ pc[p] = "read" /\ kind[p] = "POST"
  /\ IF ReadFails(FileAt(PathOf(kind[p])))
     THEN /\ Answer(p, 500, [ error |-> "Failed to create assessment" ])
          /\ t = now
          /\ UNCHANGED << body, local, snap, stamp, now >>
     ELSE /\ Await(p, "write")
          /\ now' = t
          /\ body' = [ body EXCEPT ![p] = NewAssessment(body[p], t) ]
          /\ local' = [ local EXCEPT ![p] =
                          PostChange(ReadJsonFile(FileAt(PathOf(kind[p]))), body[p], t) ]
          /\ snap' = [ snap EXCEPT ![p] = ReadJsonFile(FileAt(PathOf(kind[p]))) ]
          /\ stamp' = [ stamp EXCEPT ![p] = t ]
  /\ readAt' = [ readAt EXCEPT ![p] = nWrites ]
  /\ UNCHANGED << file, rfis, kind, pathId, sent, index, resList, started, wroteAt,
                  mustSee, seenPut >>
  /\ UNCHANGED histVars
  /\ UNCHANGED << clientVars, downloadVars >>

PostWrite(p) ==
  /\ pc[p] = "write" /\ kind[p] = "POST"
  /\ WriteTo(PathOf(kind[p]), local[p])
  /\ Answer(p, 201, body[p])
  /\ wroteAt' = [ wroteAt EXCEPT ![p] = nWrites + 1 ]
  /\ acked' = acked \cup { body[p]["id"] }
  /\ nWrites' = nWrites + 1
  /\ prevPut' = NoPut
  /\ expect' = Append(expect, body[p])
  /\ clean' = (clean /\ readAt[p] = nWrites)
  /\ UNCHANGED << now, local, index, resList, started, snap, stamp, readAt, mustSee,
                  seenPut >>
  /\ UNCHANGED reqVars
  /\ UNCHANGED << clientVars, downloadVars >>

\* ---- PUT /api/assessments/:id ----------------------------------------------
\* Variant of PutStart that checks nothing before it reads the file: C22
\* depends on the check coming first.
PutStartReadsFirst(p, id, b) ==
  /\ Takes(p)
  /\ Begin(p, "PUT", id, b)
  /\ Await(p, "read")

PutStart(p, id, b) ==
  /\ Takes(p)
  /\ Begin(p, "PUT", id, b)
  /\ IF ~Valid(b)
     THEN Answer(p, 400, [ error |-> "Process Name and Status are required." ])
     ELSE Await(p, "read")

PutRead(p, t) ==
  /\ pc[p] = "read" /\ kind[p] = "PUT"
  /\ IF ReadFails(FileAt(PathOf(kind[p])))
     THEN /\ Answer(p, 500, [ error |-> "Failed to update assessment" ])
          /\ t = now
          /\ UNCHANGED << local, index, snap, stamp, now >>
     ELSE LET arr == ReadJsonFile(FileAt(PathOf(kind[p])))
              i == FindIndex(arr, pathId[p])
          IN /\ snap' = [ snap EXCEPT ![p] = arr ]
             /\ index' = [ index EXCEPT ![p] = i ]
             /\ IF i = 0
                THEN /\ Answer(p, 404, [ error |-> "Assessment not found" ])
                     /\ local' = [ local EXCEPT ![p] = arr ]
                     /\ t = now
                     /\ UNCHANGED << stamp, now >>
                ELSE /\ Await(p, "write")
                     /\ now' = t
                     /\ local' = [ local EXCEPT ![p] =
                                     PutChange(arr, i, body[p], pathId[p], t) ]
                     /\ stamp' = [ stamp EXCEPT ![p] = t ]
  /\ readAt' = [ readAt EXCEPT ![p] = nWrites ]
  /\ UNCHANGED << file, rfis, resList, started, wroteAt, mustSee, seenPut >>
  /\ UNCHANGED reqVars
  /\ UNCHANGED histVars
  /\ UNCHANGED << clientVars, downloadVars >>

PutWrite(p) ==
  /\ pc[p] = "write" /\ kind[p] = "PUT"
  /\ WriteTo(PathOf(kind[p]), local[p])
  /\ Answer(p, 200, local[p][index[p]])
  /\ wroteAt' = [ wroteAt EXCEPT ![p] = nWrites + 1 ]
  /\ nWrites' = nWrites + 1
  /\ prevPut' = [ n |-> nWrites + 1, id |-> pathId[p], body |-> sent[p],
                  rec |-> local[p][index[p]], after |-> local[p] ]
  /\ expect' = ApplyPut(expect, pathId[p], sent[p], DateOf(stamp[p]))
  /\ clean' = (clean /\ readAt[p] = nWrites)
  /\ UNCHANGED << now, local, index, resList, started, snap, stamp, readAt, acked,
                  mustSee, seenPut >>
  /\ UNCHANGED reqVars
  /\ UNCHANGED << clientVars, downloadVars >>

\* ---- GET /api/assessments, existsSync variant -------------------------------
GetxStart(p) ==
  /\ Takes(p)
  /\ Begin(p, "GETX", "", EmptyObj)
  /\ IF ~ExistsSync(FileAt("assessments"))
     THEN Answer(p, 404, [ error |-> "assessments.json not found" ])
     ELSE Await(p, "read")

GetxSend(p, s) ==
  /\ pc[p] = "read" /\ kind[p] = "GETX"
  /\ LET f == FileAt("assessments")
     IN /\ s \in SendFileStatuses(f)
        /\ pc' = [ pc EXCEPT ![p] = "done" ]
        /\ resStatus' = [ resStatus EXCEPT ![p] = s ]
        /\ resList' = [ resList EXCEPT ![p] =
                         IF f.state = "bad" THEN << >> ELSE SendFile(f) ]
        /\ snap' = [ snap EXCEPT ![p] = IF f.state = "bad" THEN << >> ELSE Parse(f.text) ]
  /\ readAt' = [ readAt EXCEPT ![p] = nWrites ]
  /\ UNCHANGED << file, rfis, now, local, index, resRec, started, stamp, wroteAt,
                  mustSee, seenPut >>
  /\ UNCHANGED reqVars
  /\ UNCHANGED histVars
  /\ UNCHANGED << clientVars, downloadVars >>

\* ---- the page --------------------------------------------------------------
\* What renderTable(rows) and the status line after it leave on the page.
Show(rows) ==
  /\ current' = rows
  /\ tbody' = RenderTable(rows)
  /\ statusText' = [ kind |-> "count", n |-> Len(rows) ]

\* DOMContentLoaded: initMyAssessments runs on the My Assessments page only, up
\* to its await: the status line says loading and the one fetch is issued.
DomContentLoaded(pg) ==
  /\ page = "closed"
  /\ IF pg = "assessments"
     THEN /\ page' = "loading"
          /\ statusText' = [ kind |-> "loading", n |-> 0 ]
          /\ fetches' = fetches + 1
     ELSE /\ page' = "other"
          /\ UNCHANGED << statusText, fetches >>
  /\ UNCHANGED << response, allRows, current, tbody, searchBox, alertText, events,
                  heard >>
  /\ UNCHANGED << serverVars, downloadVars >>

\* fetchJson settles: with an ok response the baseline is kept, the table
\* rendered and the listeners wired; otherwise the catch shows the error.
FetchSettles ==
  /\ page = "loading"
  /\ IF response.status = 200
     THEN /\ page' = "ready"
          /\ allRows' = response.rows
          /\ Show(response.rows)
     ELSE /\ page' = "error"
          /\ statusText' = [ kind |-> "error", n |-> response.status ]
          /\ UNCHANGED << allRows, current, tbody >>
  /\ UNCHANGED << response, fetches, searchBox, alertText, events, heard >>
  /\ UNCHANGED << serverVars, downloadVars >>

\* The user changes the text of the search box; the input listener exists once
\* the page is ready.
OnInput(kw) ==
  /\ page \in { "loading", "ready", "error" }
  /\ events < MaxEvents
  /\ events' = events + 1
  /\ searchBox' = kw
  /\ IF page = "ready"
     THEN /\ Show(Refilter(allRows, current, kw))
          /\ heard' = heard + 1
     ELSE UNCHANGED << current, tbody, statusText, heard >>
  /\ UNCHANGED << page, response, fetches, allRows, alertText >>
  /\ UNCHANGED << serverVars, downloadVars >>

\* allRows.find(r => r.id === id)?.processName.
NameOf(rows, id) ==
  IF \E i \in DOMAIN rows : rows[i]["id"] = id
  THEN Field(rows[CHOOSE i \in DOMAIN rows :
                    /\ rows[i]["id"] = id
                    /\ \A j \in 1..(i - 1) : rows[j]["id"] # id], "processName")
  ELSE << "undefined" >>

ClickActionFetches(i, a) ==
  /\ page = "ready"
  /\ events < MaxEvents
  /\ i \in DOMAIN tbody
  /\ tbody[i][a]
  /\ events' = events + 1
  /\ fetches' = fetches + 1
  /\ alertText' = [ action |-> a, name |-> NameOf(allRows, tbody[i]["id"]),
                    id |-> tbody[i]["id"] ]
  /\ UNCHANGED << page, response, allRows, current, tbody, statusText,
                  searchBox, heard >>
  /\ UNCHANGED << serverVars, downloadVars >>

\* A click on button a of row i of the table (a disabled button gets no click):
\* the document listener of wireActions shows an alert.
ClickAction(i, a) ==
  /\ page = "ready"
  /\ events < MaxEvents
  /\ i \in DOMAIN tbody
  /\ tbody[i][a]
  /\ events' = events + 1
  /\ alertText' = [ action |-> a, name |-> NameOf(allRows, tbody[i]["id"]),
                    id |-> tbody[i]["id"] ]
  /\ UNCHANGED << page, response, fetches, allRows, current, tbody, statusText,
                  searchBox, heard >>
  /\ UNCHANGED << serverVars, downloadVars >>

\* A click on #createBtn.
ClickCreate ==
  /\ page = "ready"
  /\ events < MaxEvents
  /\ events' = events + 1
  /\ alertText' = [ action |-> "create", name |-> << >>, id |-> "" ]
  /\ UNCHANGED << page, response, fetches, allRows, current, tbody, statusText,
                  searchBox, heard >>
  /\ UNCHANGED << serverVars, downloadVars >>

\* ---- environment -----------------------------------------------------------
\* writeJsonFile rejects (fs.writeFile fails): the handler's catch answers 500.
WriteFail(p) ==
  /\ pc[p] = "write"
  /\ Answer(p, 500, [ error |-> IF kind[p] = "POST"
                                THEN "Failed to create assessment"
                                ELSE "Failed to update assessment" ])
  /\ UNCHANGED << file, rfis, now, local, index, resList, started, snap, stamp,
                  readAt, wroteAt, mustSee, seenPut >>
  /\ UNCHANGED reqVars
  /\ UNCHANGED histVars
  /\ UNCHANGED << clientVars, downloadVars >>

\* The clock values Date.now() and new Date() can return to a handler: the
\* clock never runs backwards, and any amount of time passes between two reads.
ClockReads == now..MaxClock

Next ==
  \/ \E p \in Procs : GetStart(p)
  \/ \E p \in Procs : GetRead(p)
  \/ \E p \in Procs : RfisStart(p)
  \/ \E p \in Procs : RfisRead(p)
  \/ \E p \in Procs, b \in Bodies : PostStart(p, b)
  \/ \E p \in Procs, t \in ClockReads : PostRead(p, t)
  \/ \E p \in Procs : PostWrite(p)
  \/ \E p \in Procs, id \in PathIds, b \in Bodies : PutStart(p, id, b)
  \/ \E p \in Procs, t \in ClockReads : PutRead(p, t)
  \/ \E p \in Procs : PutWrite(p)
  \/ \E p \in Procs : WriteFail(p)

Spec == Init /\ [][Next]_vars

\* The two variants of GET /api/assessments serving the same file, which POSTs
\* of the full variant write.
NextVariants ==
  \/ \E p \in Procs : GetStart(p)
  \/ \E p \in Procs : GetRead(p)
  \/ \E p \in Procs : GetxStart(p)
  \/ \E p \in Procs, s \in { 200, 500 } : GetxSend(p, s)
  \/ \E p \in Procs, b \in Bodies : PostStart(p, b)
  \/ \E p \in Procs, t \in ClockReads : PostRead(p, t)
  \/ \E p \in Procs : PostWrite(p)

SpecVariants == Init /\ [][NextVariants]_vars

\* The page opened on a server that answers its fetch with one of Responses.
InitClient ==
  /\ ServerInit
  /\ file = WriteJsonFile(<< Seed >>)
  /\ PageClosed
  /\ response \in Responses
  /\ DownloadOff
  /\ dataset = 0

NextClient ==
  \/ \E pg \in { "assessments", "other" } : DomContentLoaded(pg)
  \/ FetchSettles
  \/ \E kw \in Queries : OnInput(kw)
  \/ \E i \in 1..3, a \in { "view", "edit", "submit" } : ClickAction(i, a)
  \/ ClickCreate

SpecClient == InitClient /\ [][NextClient]_vars

\* ---- the download script ------------------------------------------------------
\* node download.js: fetchAllRecords up to its first await.
RunStart ==
  /\ dpc \in { "off", "returned", "threw" }
  /\ runs < MaxRuns
  /\ runs' = runs + 1
  /\ LET pr == LoadProgress(progressFile)
     IN /\ progress' = pr
        /\ totalRecords' = pr.totalRecords
        /\ completedOffsets' = pr.completedBatches
        /\ dpc' = IF pr.totalRecords = 0 THEN "discover" ELSE "loop"
        /\ attempts' = IF pr.totalRecords = 0 THEN 0 ELSE attempts
        /\ failures' = IF pr.totalRecords = 0 THEN 0 ELSE failures
  /\ offset' = 0
  /\ records' = 0
  /\ retryCount' = 0
  /\ UNCHANGED << dataset, progressFile, batchFile, metadataFile >>
  /\ UNCHANGED << serverVars, clientVars >>

\* One axios.get of fetchBatchWithRetry and what follows it: with ok the result
\* is returned to fetchAllRecords; without, the catch rethrows on the last
\* retry and else sleeps and calls again with retryCount + 1.
Request(ok) ==
  /\ dpc \in { "discover", "fetch" }
  /\ attempts' = attempts + 1
  /\ IF ok
     THEN /\ retryCount' = 0
          /\ UNCHANGED failures
          /\ IF dpc = "discover"
             THEN /\ totalRecords' = dataset
                  /\ progress' = [ progress EXCEPT !.totalRecords = dataset ]
                  /\ dpc' = "total"
                  /\ UNCHANGED records
             ELSE /\ records' = RecordsAt(dataset, offset)
                  /\ dpc' = NextAfterFetch(RecordsAt(dataset, offset))
                  /\ UNCHANGED << totalRecords, progress >>
          /\ UNCHANGED << offset, completedOffsets >>
     ELSE /\ failures' = failures + 1
          /\ IF IsLastRetry(retryCount)
             THEN /\ dpc' = "threw"
                  /\ ScriptDead
             ELSE /\ retryCount' = retryCount + 1
                  /\ UNCHANGED << dpc, offset, totalRecords, completedOffsets,
                                  progress, records >>
  /\ UNCHANGED << dataset, progressFile, batchFile, metadataFile, runs >>
  /\ UNCHANGED << serverVars, clientVars >>

\* saveProgress after the discovery of the total; with torn the process dies
\* in the write.
SaveTotal(torn) ==
  /\ dpc = "total"
  /\ IF torn
     THEN /\ progressFile' = TornProgress
          /\ dpc' = "off"
          /\ ScriptDead
     ELSE /\ progressFile' = SavedProgress(progress)
          /\ dpc' = "loop"
          /\ UNCHANGED << offset, totalRecords, completedOffsets, progress, records,
                          retryCount >>
  /\ UNCHANGED << dataset, batchFile, metadataFile, runs, attempts, failures >>
  /\ UNCHANGED << serverVars, clientVars >>

\* The head of the while loop: leave it, skip a completed offset, or call
\* fetchBatchWithRetry for the offset.
LoopTest ==
  /\ dpc = "loop"
  /\ IF ~(offset < totalRecords)
     THEN /\ dpc' = "finish"
          /\ UNCHANGED << offset, attempts, failures >>
     ELSE IF offset \in completedOffsets
     THEN /\ offset' = offset + API_LIMIT
          /\ UNCHANGED << dpc, attempts, failures >>
     ELSE /\ dpc' = "fetch"
          /\ attempts' = 0
          /\ failures' = 0
          /\ UNCHANGED offset
  /\ UNCHANGED << dataset, progressFile, batchFile, metadataFile, totalRecords,
                  completedOffsets, progress, records, retryCount, runs >>
  /\ UNCHANGED << serverVars, clientVars >>

\* saveBatch(resourceId, offset, records).
SaveBatch(torn) ==
  /\ dpc = "save"
  /\ batchFile' = [ batchFile EXCEPT ![offset] = IF torn THEN "torn" ELSE "whole" ]
  /\ IF torn
     THEN /\ dpc' = "off"
          /\ ScriptDead
     ELSE /\ dpc' = "progress"
          /\ UNCHANGED << offset, totalRecords, completedOffsets, progress, records,
                          retryCount >>
  /\ UNCHANGED << dataset, progressFile, metadataFile, runs, attempts, failures >>
  /\ UNCHANGED << serverVars, clientVars >>

\* completedOffsets.add(offset), saveProgress, and the end of the iteration:
\* break after a last page, else the next offset.
SaveProgress(torn) ==
  /\ dpc = "progress"
  /\ IF torn
     THEN /\ progressFile' = TornProgress
          /\ dpc' = "off"
          /\ ScriptDead
     ELSE LET done == completedOffsets \cup { offset }
              pr == [ progress EXCEPT !.completedBatches = done ]
          IN /\ completedOffsets' = done
             /\ progress' = pr
             /\ progressFile' = SavedProgress(pr)
             /\ IF IsLastPage(records)
                THEN /\ dpc' = "finish"
                     /\ UNCHANGED offset
                ELSE /\ dpc' = "loop"
                     /\ offset' = offset + API_LIMIT
             /\ UNCHANGED << totalRecords, records, retryCount >>
  /\ UNCHANGED << dataset, batchFile, metadataFile, runs, attempts, failures >>
  /\ UNCHANGED << serverVars, clientVars >>

\* The metadata file is written and fetchAllRecords returns.
Finish(torn) ==
  /\ dpc = "finish"
  /\ metadataFile' =
       IF torn THEN [ state |-> "torn", totalRecords |-> 0, totalBatches |-> 0 ]
       ELSE [ state |-> "ok", totalRecords |-> totalRecords,
              totalBatches |-> Cardinality(completedOffsets) ]
  /\ dpc' = IF torn THEN "off" ELSE "returned"
  /\ ScriptDead
  /\ UNCHANGED << dataset, progressFile, batchFile, runs, attempts, failures >>
  /\ UNCHANGED << serverVars, clientVars >>

\* The process is killed between two steps.
Interrupt ==
  /\ dpc \in { "discover", "total", "loop", "fetch", "save", "progress", "finish" }
  /\ dpc' = "off"
  /\ ScriptDead
  /\ UNCHANGED << dataset, progressFile, batchFile, metadataFile, runs, attempts,
                  failures >>
  /\ UNCHANGED << serverVars, clientVars >>

\* The script on an empty data directory and a resource of one of Totals.
InitDownload ==
  /\ ServerInit
  /\ file = WriteJsonFile(<< Seed >>)
  /\ PageClosed
  /\ response = [ status |-> 404, rows |-> << >> ]
  /\ DownloadOff
  /\ dataset \in Totals

\* A step of the script itself.
ScriptStep ==
  \/ \E ok \in BOOLEAN : Request(ok)
  \/ SaveTotal(FALSE)
  \/ LoopTest
  \/ SaveBatch(FALSE)
  \/ SaveProgress(FALSE)
  \/ Finish(FALSE)

NextDownload ==
  \/ RunStart
  \/ \E ok \in BOOLEAN : Request(ok)
  \/ \E torn \in BOOLEAN : SaveTotal(torn)
  \/ LoopTest
  \/ \E torn \in BOOLEAN : SaveBatch(torn)
  \/ \E torn \in BOOLEAN : SaveProgress(torn)
  \/ \E torn \in BOOLEAN : Finish(torn)
  \/ Interrupt

SpecDownload == InitDownload /\ [][NextDownload]_vars

\* The script under a scheduler that lets a running process take its steps.
SpecDownloadFair == SpecDownload /\ WF_vars(ScriptStep)

\* ---- properties ------------------------------------------------------------
\* An object without its lastModified field.
StripLM(obj) == [ k \in DOMAIN obj \ { "lastModified" } |-> obj[k] ]

\* An array of objects without their lastModified fields.
StripAllLM(arr) == [ i \in 1..Len(arr) |-> StripLM(arr[i]) ]

ServerAssigned == { "id", "createdDate", "lastModified" }

\* C1: every POST with a non-empty processName and status whose file I/O
\* succeeds is answered 201, and from that answer on the collection a GET
\* reads holds a record with the created id, whatever requests overlap it.
C1_CreatedStaysListed ==
  /\ \A p \in Procs :
       (kind[p] = "POST" /\ Valid(sent[p]) /\ pc[p] = "done" /\ resStatus[p] # 500)
         => resStatus[p] = 201
  /\ file.state = "ok" => \A id \in acked : id \in IdsOf(Stored)
  /\ \A g \in Procs :
       (kind[g] = "GET" /\ pc[g] = "done" /\ resStatus[g] = 200)
         => \A id \in mustSee[g] : id \in IdsOf(resList[g])

\* Two handlers that both answered a success after reading the same
\* collection, q being the one whose write came last.
Raced(p, q) ==
  /\ p # q
  /\ pc[p] = "done" /\ pc[q] = "done"
  /\ kind[p] \in { "POST", "PUT" } /\ kind[q] \in { "POST", "PUT" }
  /\ resStatus[p] \in { 200, 201 } /\ resStatus[q] \in { 200, 201 }
  /\ snap[p] = snap[q]
  /\ LastWriter(q)

\* C2: when two overlapping writes read the same collection and both answer
\* a success, the file holds the collection they read with only the change
\* of the one that wrote last: one record appended after a POST, one record
\* replaced after a PUT, every other element as it was read.
C2_LastWriterWins ==
  \A p, q \in Procs :
    Raced(p, q) =>
      /\ file.state = "ok"
      /\ Stored = local[q]
      /\ kind[q] = "POST" =>
           /\ Len(Stored) = Len(snap[q]) + 1
           /\ \A i \in 1..Len(snap[q]) : Stored[i] = snap[q][i]
           /\ Stored[Len(Stored)] = resRec[q]
      /\ kind[q] = "PUT" =>
           /\ Len(Stored) = Len(snap[q])
           /\ \A i \in 1..Len(snap[q]) : i # index[q] => Stored[i] = snap[q][i]
           /\ Stored[index[q]] = resRec[q]

\* C2 witness: both writes were acknowledged and the record the first one
\* answered is in the file no more.
C2_Witness ==
  \E p, q \in Procs :
    /\ Raced(p, q)
    /\ \A i \in 1..Len(Stored) : Stored[i] # resRec[p]
    /\ \E i \in 1..Len(Stored) : Stored[i] = resRec[q]

\* C3: a record of the stored collection is still there (same id) after every
\* step, also when POST and PUT requests overlap.
C3_NeverDeleted ==
  [][ \A id \in IdsOf(Stored) : id \in IdsOf(Stored') ]_vars

\* C4: a POST whose body lacks processName or status (absent or empty) is
\* answered 400 at once, reads nothing and writes nothing.
C4_InvalidPostRejected ==
  \A p \in Procs :
    ( /\ kind[p] = "POST"
      /\ \/ "processName" \notin DOMAIN sent[p]
         \/ "status" \notin DOMAIN sent[p]
         \/ sent[p]["processName"] = ""
         \/ sent[p]["status"] = "" )
    => /\ pc[p] = "done"
       /\ resStatus[p] = 400
       /\ wroteAt[p] = 0
       /\ local[p] = << >>
       /\ body[p] = sent[p]

\* C4 witness: two POSTs were answered 400 on a collection that holds a
\* record, one for an absent status and one for an empty processName.
C4_Witness ==
  \E p, q \in Procs :
    /\ kind[p] = "POST" /\ resStatus[p] = 400 /\ "status" \notin DOMAIN sent[p]
    /\ kind[q] = "POST" /\ resStatus[q] = 400 /\ "processName" \in DOMAIN sent[q]
    /\ "status" \in DOMAIN sent[q]
    /\ Len(Stored) > 0

\* The path parameter of p is the id of no record of arr.
UnknownIn(p, arr) == \A i \in 1..Len(arr) : arr[i]["id"] # pathId[p]

\* C5 as stated: a PUT whose id is the id of no stored record is answered 404
\* and writes nothing, whatever its body (the file being readable and, no
\* write having happened, the same during the whole request).
C5_UnknownIdIs404 ==
  \A p \in Procs :
    ( /\ kind[p] = "PUT" /\ pc[p] = "done"
      /\ file.state # "bad" /\ nWrites = 0
      /\ UnknownIn(p, Stored) )
    => resStatus[p] = 404 /\ wroteAt[p] = 0

\* C5 amended: a PUT whose body passes the required-field check and whose id
\* is the id of no record of the collection it read is answered 404 and
\* writes nothing; a PUT whose body fails the check is answered 400 and
\* writes nothing, whether or not its id is known.
C5_UnknownIdIs404IfValid ==
  \A p \in Procs :
    (kind[p] = "PUT" /\ pc[p] = "done" /\ resStatus[p] # 500) =>
      /\ ( /\ "processName" \in DOMAIN sent[p] /\ sent[p]["processName"] # ""
           /\ "status" \in DOMAIN sent[p] /\ sent[p]["status"] # ""
           /\ UnknownIn(p, snap[p]) )
         => resStatus[p] = 404 /\ wroteAt[p] = 0
      /\ ( \/ "processName" \notin DOMAIN sent[p]
           \/ "status" \notin DOMAIN sent[p]
           \/ sent[p]["processName"] = ""
           \/ sent[p]["status"] = "" )
         => resStatus[p] = 400 /\ wroteAt[p] = 0

\* C5 witness: a 404 on a collection that holds records, none with the id.
C5_Witness ==
  \E p \in Procs :
    /\ kind[p] = "PUT" /\ resStatus[p] = 404
    /\ Len(snap[p]) > 0 /\ UnknownIn(p, snap[p])
    /\ "createdDate" \in DOMAIN sent[p]

\* A PUT that was answered 200.
PutOk(p) == kind[p] = "PUT" /\ pc[p] = "done" /\ resStatus[p] = 200

\* The record a successful PUT found in the collection it read.
OldOf(p) == snap[p][index[p]]

\* C6: a successful PUT answers, and stores, a record with the id and the
\* createdDate the record had before, whatever the body supplies for them,
\* and with lastModified set to the current date.
C6_PutKeepsIdAndCreatedDate ==
  \A p \in Procs :
    PutOk(p) =>
      /\ resRec[p]["id"] = OldOf(p)["id"]
      /\ resRec[p]["createdDate"] = OldOf(p)["createdDate"]
      /\ resRec[p]["lastModified"] = "day" \o ToString(stamp[p] \div DayLen)
      /\ LastWriter(p) => Stored[index[p]] = resRec[p]

Repeated(q) ==
  /\ PutOk(q)
  /\ LastWriter(q)
  /\ seenPut[q].n > 0
  /\ wroteAt[q] = seenPut[q].n + 1
  /\ seenPut[q].id = pathId[q]
  /\ seenPut[q].body = sent[q]

\* C8: the same PUT sent twice in succession with no write in between leaves
\* the stored collection and the answered record, lastModified aside, the
\* same after the second request as after the first.
C8_PutIdempotent ==
  \A q \in Procs :
    Repeated(q) =>
      /\ StripAllLM(Stored) = StripAllLM(seenPut[q].after)
      /\ StripLM(resRec[q]) = StripLM(seenPut[q].rec)

\* C8 witness: the repeated PUT ran on a later day and changed fields of the
\* record the first time.
C8_Witness ==
  \E q \in Procs :
    /\ Repeated(q)
    /\ resRec[q]["lastModified"] # seenPut[q].rec["lastModified"]
    /\ resRec[q]["processName"] # "S"

\* Record r has the fields of body b and the three server-assigned ones and no
\* other, and equals b on every field of b except those three.
RoundTrip(b, r) ==
  /\ DOMAIN r = DOMAIN b \cup { "id", "createdDate", "lastModified" }
  /\ \A k \in DOMAIN b \ { "id", "createdDate", "lastModified" } : r[k] = b[k]

\* GET g read the file as the write of POST p, answered 201, left it.
GetAfterPost(g, p) ==
  /\ kind[g] = "GET" /\ pc[g] = "done" /\ resStatus[g] = 200
  /\ kind[p] = "POST" /\ pc[p] = "done" /\ resStatus[p] = 201
  /\ readAt[g] = wroteAt[p]

\* C9: the record stored for an accepted POST body b, as a following GET
\* returns it, has the fields of b and id, createdDate and lastModified and
\* no other, and equals b on every field of b except those three.
C9_PostGetRoundTrip ==
  /\ \A p \in Procs :
       (kind[p] = "POST" /\ pc[p] = "done" /\ resStatus[p] = 201 /\ LastWriter(p)) =>
         /\ Len(Stored) > 0
         /\ RoundTrip(sent[p], Stored[Len(Stored)])
  /\ \A g, p \in Procs :
       GetAfterPost(g, p) =>
         /\ Len(resList[g]) = Len(snap[p]) + 1
         /\ RoundTrip(sent[p], resList[g][Len(resList[g])])

\* C9 witness: a GET returned the record of a body that had supplied an extra
\* field and its own id.
C9_Witness ==
  \E g, p \in Procs :
    /\ GetAfterPost(g, p)
    /\ "content" \in DOMAIN sent[p]
    /\ "id" \in DOMAIN sent[p]
    /\ resList[g][Len(resList[g])]["id"] # sent[p]["id"]

\* A POST that has read the file and the clock.
PostPastRead(p) ==
  /\ kind[p] = "POST"
  /\ \/ pc[p] = "write"
     \/ pc[p] = "done" /\ resStatus[p] = 201

LacksRequired(p) ==
  \/ "processName" \notin DOMAIN sent[p]
  \/ "status" \notin DOMAIN sent[p]
  \/ sent[p]["processName"] = ""
  \/ sent[p]["status"] = ""

\* C11: a PUT whose body lacks processName or status is answered 400 at once
\* and reads and writes nothing, also when its id names a stored record and
\* the body is a partial update of other fields.
C11_InvalidPutRejected ==
  \A p \in Procs :
    (kind[p] = "PUT" /\ LacksRequired(p)) =>
      /\ pc[p] = "done"
      /\ resStatus[p] = 400
      /\ wroteAt[p] = 0
      /\ readAt[p] = 0
      /\ local[p] = << >>

\* C11 witness: a partial update (content only, with an empty processName) of
\* a stored record was answered 400 and the record is as it was.
C11_Witness ==
  \E p \in Procs :
    /\ kind[p] = "PUT" /\ resStatus[p] = 400
    /\ "content" \in DOMAIN sent[p]
    /\ nWrites = 0
    /\ \E i \in 1..Len(Stored) :
         Stored[i]["id"] = pathId[p] /\ Stored[i]["content"] # sent[p]["content"]

\* C12: a GET that finds no backing file is answered 200 with the empty array.
C12_GetMissingIsEmpty ==
  \A g \in Procs :
    (kind[g] = "GET" /\ pc[g] = "done" /\ file.state = "missing") =>
      /\ resStatus[g] = 200
      /\ resList[g] = << >>
      /\ "error" \notin DOMAIN resRec[g]

\* C12 witness: two GETs were answered on the absent file.
C12_Witness ==
  \E g, h \in Procs :
    /\ g # h
    /\ kind[g] = "GET" /\ pc[g] = "done" /\ resStatus[g] = 200
    /\ kind[h] = "GET" /\ pc[h] = "done" /\ resStatus[h] = 200
    /\ file.state = "missing"

\* C13: when the backing file exists but cannot be read or parsed, a GET, a
\* POST with a valid body and a PUT with a valid body are each answered 500
\* with a JSON object holding an error message, and the file is left as it was.
C13_ReadFailureIs500 ==
  file.state = "bad" =>
    /\ nWrites = 0
    /\ \A p \in Procs :
         (pc[p] = "done" /\ (kind[p] = "GET" \/ ~LacksRequired(p))) =>
           /\ resStatus[p] = 500
           /\ DOMAIN resRec[p] = { "error" }
           /\ resRec[p]["error"] # ""
           /\ wroteAt[p] = 0
           /\ resList[p] = << >>

\* C13 witness: a POST and a PUT with valid bodies were both answered 500.
C13_Witness ==
  \E p, q \in Procs :
    /\ file.state = "bad"
    /\ kind[p] = "POST" /\ resStatus[p] = 500
    /\ kind[q] = "PUT" /\ resStatus[q] = 500

\* C14: the RFI collection is read-only: no request to any endpoint changes
\* rfis.json, and GET /api/rfis is answered 200 with the list the file holds.
C14_RfisReadOnly ==
  /\ rfis = RfisFile
  /\ \A p \in Procs :
       (kind[p] = "RFIS" /\ pc[p] = "done") =>
         /\ resStatus[p] = 200
         /\ resList[p] = RfiRows
         /\ wroteAt[p] = 0

\* C14 witness: the RFI list was returned by a GET that read rfis.json after
\* a write of the assessments file.
C14_Witness ==
  \E p \in Procs :
    /\ kind[p] = "RFIS" /\ pc[p] = "done" /\ readAt[p] > 0
    /\ Len(resList[p]) = 2

\* C15: once a stored record has status Approved no PUT changes any field of
\* it: a PUT answered 200 for an Approved record answers and stores the record
\* as it read it.
C15_ApprovedIsFrozen ==
  \A p \in Procs :
    (PutOk(p) /\ OldOf(p)["status"] = "Approved") =>
      /\ resRec[p] = OldOf(p)
      /\ LastWriter(p) => Stored[index[p]] = OldOf(p)

\* Handlers g of the full variant and x of the existsSync variant have answered
\* a GET /api/assessments from the same content of the file.
SameFile(g, x) ==
  /\ kind[g] = "GET" /\ pc[g] = "done"
  /\ kind[x] = "GETX" /\ pc[x] = "done"
  /\ readAt[g] = readAt[x]

\* C20: the variants differ only when the backing file is missing: then the
\* existsSync variant answers 404 where the full variant answers 200 with [];
\* on every other file both answer the same status, and 200 with the same
\* collection when the file is well-formed.
C20_VariantsDifferOnlyIfMissing ==
  \A g, x \in Procs :
    SameFile(g, x) =>
      /\ resStatus[x] = 404 => (resStatus[g] = 200 /\ resList[g] = << >>)
      /\ resStatus[x] # 404 =>
           /\ resStatus[g] = resStatus[x]
           /\ resStatus[g] = 200 => SendJson(resList[g]) = resList[x]

\* C20, amended: the variants differ when the backing file is missing (404
\* against 200 with []) and when it cannot be read as JSON (the full variant
\* answers 500, the existsSync variant may answer 200); whenever the full
\* variant answers 200 on an existing file, both answer 200 with the same
\* collection.
C20_VariantsDifferIfMissingOrBad ==
  \A g, x \in Procs :
    SameFile(g, x) =>
      /\ resStatus[x] = 404 => (resStatus[g] = 200 /\ resList[g] = << >>)
      /\ (resStatus[x] # 404 /\ resStatus[g] # 500) =>
           /\ resStatus[g] = 200 /\ resStatus[x] = 200
           /\ SendJson(resList[g]) = resList[x]
      /\ (resStatus[x] # 404 /\ resStatus[g] = 500) => resStatus[x] \in { 200, 500 }

\* Both variants have answered 200 with a collection of one record.
C20_Witness ==
  \E g, x \in Procs :
    /\ SameFile(g, x)
    /\ resStatus[g] = 200 /\ resStatus[x] = 200
    /\ Len(resList[x]) = 1

\* ---- properties of the page --------------------------------------------------
SearchFields == { "processName", "content", "location" }

\* The lowercased, trimmed query is empty or a substring of one of the row's
\* lowercased search fields.
FieldMatches(a, kw) ==
  LET k == Trim(ToLowerCase(kw))
  IN \/ k = << >>
     \/ \E f \in SearchFields : Includes(ToLowerCase(Field(a, f)), k)

\* The search listener has handled the text now in the search box.
Searched == page = "ready" /\ heard > 0

\* C16: after a search the view holds exactly the rows of the baseline for which
\* the lowercased, trimmed query is a substring of the lowercased process name,
\* content or location, and every row when the query is empty or white space;
\* of the rows Alpha/x/Calgary and Beta/y/Red Deer the query calgary keeps
\* exactly the first.
C16_SearchKeepsFieldMatches ==
  Searched =>
    /\ current = SelectSeq(allRows, LAMBDA a : FieldMatches(a, searchBox))
    /\ Trim(searchBox) = << >> => current = allRows
    /\ (allRows = << Row1, Row2 >> /\ searchBox = << "c", "a", "l", "g", "a", "r", "y" >>)
         => current = << Row1 >>

C21_SerialWritesKeepAll ==
  (clean /\ nWrites > 0) =>
    /\ file.state = "ok"
    /\ Stored = expect
    /\ acked \subseteq IdsOf(Stored)

\* A 200 PUT has changed the record a 201 POST before it had added to a
\* collection that held a record already.
C21_Witness ==
  /\ clean /\ nWrites = 2
  /\ Len(Stored) = 2
  /\ \E p, q \in Procs :
       /\ kind[p] = "POST" /\ wroteAt[p] = 1
       /\ kind[q] = "PUT" /\ wroteAt[q] = 2 /\ index[q] = 2
       /\ Stored[2] # resRec[p]

\* C22: the required-field check comes before the file is read and before the
\* id is looked up: a PUT or POST whose body lacks processName or status is
\* answered 400 in the step that takes it, whatever its id and whether or not
\* the file can be read; it reads neither the file nor the clock.
C22_CheckComesFirst ==
  \A p \in Procs :
    (kind[p] \in { "PUT", "POST" } /\ LacksRequired(p)) =>
      /\ pc[p] = "done"
      /\ resStatus[p] = 400
      /\ resRec[p] = [ error |-> "Process Name and Status are required." ]
      /\ snap[p] = << >> /\ index[p] = 0 /\ stamp[p] = 0
      /\ body[p] = sent[p]

\* On an unreadable file an invalid PUT to an id no record can have and an
\* invalid POST were both answered 400.
C22_Witness ==
  /\ file.state = "bad"
  /\ \E p, q \in Procs :
       /\ kind[p] = "PUT" /\ LacksRequired(p) /\ pathId[p] = "77" /\ resStatus[p] = 400
       /\ kind[q] = "POST" /\ LacksRequired(q) /\ resStatus[q] = 400

\* C23: whatever requests overlap, every record of the stored collection has
\* a non-empty processName, a non-empty status and a non-empty id (the file
\* having started missing, empty or holding such records).
C23_StoredRecordsComplete ==
  file.state = "ok" =>
    \A i \in 1..Len(Stored) :
      \A k \in { "processName", "status", "id" } :
        k \in DOMAIN Stored[i] /\ Stored[i][k] # ""

\* Two POSTs overlapped on a file that began without records (on a file with
\* records both would have kept them), and the record left is one of theirs.
C23_Witness ==
  /\ ~clean /\ nWrites = 2
  /\ \A p \in Procs : kind[p] \in { "POST", "none" }
  /\ Len(Stored) = 1
  /\ Stored[1]["id"] \in acked

\* C24: the write of a 201 POST that no other write overlaps (none since the
\* handler's read) appends: the stored collection after the step is the one
\* before it, every record as it was and in its place, followed by the record
\* answered.
C24_PostAppends ==
  [][\A p \in Procs :
       ( /\ kind[p] = "POST" /\ pc[p] = "write"
         /\ resStatus'[p] = 201
         /\ readAt[p] = nWrites )
       => /\ Len(Stored') = Len(Stored) + 1
          /\ SubSeq(Stored', 1, Len(Stored)) = Stored
          /\ Stored'[Len(Stored')] = resRec'[p]]_vars

\* A POST that no write overlapped has been answered 201 and the collection,
\* which held a record before, holds two.
C24_Witness ==
  \E p \in Procs :
    /\ kind[p] = "POST" /\ resStatus[p] = 201
    /\ LastWriter(p) /\ readAt[p] = wroteAt[p] - 1
    /\ Len(Stored) = 2 /\ Stored[2] = resRec[p]

\* The place of the first record of arr whose id is id (0: there is none).
FirstWithId(arr, id) ==
  IF \E i \in 1..Len(arr) : arr[i]["id"] = id
  THEN CHOOSE i \in 1..Len(arr) :
         arr[i]["id"] = id /\ \A j \in 1..(i - 1) : arr[j]["id"] # id
  ELSE 0

\* C25: the write of a 200 PUT that no other write overlaps changes one element
\* of the stored collection, the first record whose id is the path parameter,
\* which becomes the record answered: the length of the collection and every
\* other record, a later one with the same id too, are as before.
C25_PutChangesOneRecord ==
  [][\A p \in Procs :
       ( /\ kind[p] = "PUT" /\ pc[p] = "write"
         /\ resStatus'[p] = 200
         /\ readAt[p] = nWrites )
       => /\ Len(Stored') = Len(Stored)
          /\ FirstWithId(Stored, pathId[p]) > 0
          /\ \A i \in 1..Len(Stored) :
               Stored'[i] = IF i = FirstWithId(Stored, pathId[p])
                            THEN resRec'[p] ELSE Stored[i]]_vars

\* A PUT that no write overlapped has changed the first of two records with
\* its id and has left the second as it was.
C25_Witness ==
  \E p \in Procs :
    /\ kind[p] = "PUT" /\ resStatus[p] = 200
    /\ LastWriter(p) /\ readAt[p] = wroteAt[p] - 1
    /\ Len(Stored) = 2
    /\ Stored[1]["id"] = pathId[p] /\ Stored[2]["id"] = pathId[p]
    /\ Stored[1] = resRec[p] /\ Stored[2] = snap[p][2]
    /\ Stored[1] # snap[p][1]

\* ---- more properties of the page ----------------------------------------------
\* C26: a row passes the search only if the normalized query is a substring of
\* one of its three normalized fields taken by itself: no row is in the view
\* because the query spans two fields or is the separator that joins them.
C26_MatchWithinOneField ==
  Searched =>
    \A i \in DOMAIN current :
      \/ Normalize(searchBox) = << >>
      \/ \E f \in SearchFields :
           Includes(Normalize(Field(current[i], f)), Normalize(searchBox))

\* C27: on the ready page, after the load and after every search input, the
\* view is the baseline filtered by the text now in the search box (so a
\* sub-sequence of the baseline in its order, owing nothing to the view
\* before), and the status text is the count of the view.
C27_ViewFollowsSearchBox ==
  page = "ready" =>
    /\ current = SelectSeq(allRows, LAMBDA a : MatchesKeyword(a, searchBox))
    /\ statusText = [ kind |-> "count", n |-> Len(current) ]

\* ---- properties of the download script -----------------------------------------
\* A call of fetchBatchWithRetry is in progress.
InCall == dpc \in { "discover", "fetch" }

C29_BatchBeforeProgress ==
  progressFile.state = "ok" =>
    \A o \in progressFile.completedBatches : batchFile[o] = "whole"

\* A run that died in the write of the third batch was followed by another:
\* two offsets are listed, the third batch file is torn.
C29_Witness ==
  /\ runs >= 2 /\ dpc \in { "loop", "fetch" }
  /\ progressFile.state = "ok"
  /\ progressFile.completedBatches = { 0, API_LIMIT }
  /\ batchFile[2 * API_LIMIT] = "torn"

====
